---- MODULE Spec2Model ----
(***************************************************************************)
(* Model of the Auth0 authentication gate of the FastMCP example server.   *)
(*                                                                         *)
(*   src/src/types.ts      authenticate, getBaseUrl, isNonEmptyString      *)
(*   src/unnamed/part_001  hasAllScopes, registerTools                     *)
(*   src/unnamed/part_002  the process: configuration, server, start       *)
(*                                                                         *)
(* JavaScript values are tagged records, each type with its own value     *)
(* field, so that typeof, truthiness and absent object keys are modelled   *)
(* as the code sees them.  Strings are TLA+ strings and every string       *)
(* function of the code (startsWith, substring, trim, split, includes) is  *)
(* computed character by character.                                        *)
(***************************************************************************)
EXTENDS Integers, Sequences, FiniteSets, TLC

VARIABLES
    config,       \* process.env.AUTH0_DOMAIN and AUTH0_AUDIENCE, as the casts read them
    server,       \* the process: "loading", "listening" or "exited"
    env,          \* process.env.MCP_SERVER_URL, fixed when the process starts
    pc,           \* per request: position inside authenticate
    request,      \* per request: the IncomingMessage being authenticated
    baseUrl,      \* per request: authenticate's local baseUrl
    accessToken,  \* per request: authenticate's local accessToken
    decoded,      \* per request: the payload verifyAccessToken resolved with
    caught,       \* per request: the error caught by authenticate's catch block
    outcome,      \* per request: what authenticate returned or threw
    verifyCalls,  \* the calls of apiClient.verifyAccessToken, in order
    console,      \* per request: the console levels written, in order
    toolCall      \* per request: the last tool dispatched on the session

vars == <<config, server, env, pc, request, baseUrl, accessToken, decoded, caught, outcome,
          verifyCalls, console, toolCall>>

---------------------------------------------------------------------------
(* JavaScript values *)

Undefined == [t |-> "undefined"]

Str(s) == [t |-> "string", v |-> s]

Num(n) == [t |-> "number", n |-> n]

Arr(a) == [t |-> "array", a |-> a]

Bool(b) == [t |-> "boolean", b |-> b]

Null == [t |-> "null"]

EmptyObj == [k \in {} |-> Undefined]

\* ToBoolean of a JavaScript value
Truthy(x) ==
    CASE x.t \in {"undefined", "null"} -> FALSE
      [] x.t = "boolean" -> x.b
      [] x.t = "string" -> Len(x.v) > 0
      [] x.t = "number" -> x.n # 0
      [] OTHER -> TRUE

\* a || b
Or(a, b) == IF Truthy(a) THEN a ELSE b

\* a ?? b
Nullish(a, b) == IF a.t = "undefined" THEN b ELSE a

\* ...(cond && obj) inside an object literal
SpreadIf(cond, obj) == IF Truthy(cond) THEN obj ELSE EmptyObj

---------------------------------------------------------------------------
(* String functions *)

\* U+00A0 NO-BREAK SPACE: white space to trim(), and a header value keeps it
NBSP == " "

\* the white space and line terminators trim() removes, as far as the inputs
\* of the model have them
WhiteSpace == {" ", "\t", "\n", NBSP}

CharAt(s, i) == SubSeq(s, i, i)

\* s.slice(m - 1, n): the characters m..n of s that exist
Slice(s, m, n) == SubSeq(s, m, IF n > Len(s) THEN Len(s) ELSE n)

StartsWith(s, p) == Len(s) >= Len(p) /\ SubSeq(s, 1, Len(p)) = p

\* s.substring(n)
Substring(s, n) == SubSeq(s, n + 1, Len(s))

\* s.includes(sub)
Includes(s, sub) ==
    \E i \in 1..(Len(s) - Len(sub) + 1) : SubSeq(s, i, i + Len(sub) - 1) = sub

RECURSIVE TrimStart(_)
TrimStart(s) ==
    IF Len(s) > 0 /\ CharAt(s, 1) \in WhiteSpace THEN TrimStart(Tail(s)) ELSE s

RECURSIVE TrimEnd(_)
TrimEnd(s) ==
    IF Len(s) > 0 /\ CharAt(s, Len(s)) \in WhiteSpace
    THEN TrimEnd(SubSeq(s, 1, Len(s) - 1))
    ELSE s

\* s.trim()
Trim(s) == TrimEnd(TrimStart(s))

RECURSIVE SplitFrom(_, _, _, _)
SplitFrom(s, sep, i, cur) ==
    IF i > Len(s) THEN <<cur>>
    ELSE IF CharAt(s, i) = sep
         THEN <<cur>> \o SplitFrom(s, sep, i + 1, "")
         ELSE SplitFrom(s, sep, i + 1, cur \o CharAt(s, i))

\* s.split(sep) for a one-character separator
Split(s, sep) == SplitFrom(s, sep, 1, "")

\* array.filter(Boolean) on an array of strings
FilterBoolean(a) == SelectSeq(a, LAMBDA x : Len(x) > 0)

\* array.includes(x)
ArrayIncludes(a, x) == \E i \in 1..Len(a) : a[i] = x

---------------------------------------------------------------------------
(* new URL(...) of the WHATWG URL standard, for the inputs of this model:   *)
(* strings that are http(s) URLs (scheme://authority/path) or that carry no *)
(* http(s) scheme at all.  Credentials, IPv6 literals, percent-decoding and *)
(* dot-segment removal are not modelled; no input of the model has them.    *)
(* The parser strips leading and trailing C0 controls and spaces; no URL of *)
(* the model holds a no-break space, so Trim removes the same characters.   *)

UpperCase == "ABCDEFGHIJKLMNOPQRSTUVWXYZ"

LowerCase == "abcdefghijklmnopqrstuvwxyz"

Digits == "0123456789"

\* 1-based index of the one-character string c in s, 0 when absent
RECURSIVE IndexFrom(_, _, _)
IndexFrom(s, c, i) ==
    IF i > Len(s) THEN 0 ELSE IF CharAt(s, i) = c THEN i ELSE IndexFrom(s, c, i + 1)

IndexOf(s, c) == IndexFrom(s, c, 1)

\* ASCII lower-casing, as a table from each upper-case letter
LowerOf ==
    [c \in {CharAt(UpperCase, i) : i \in 1..Len(UpperCase)} |->
        CharAt(LowerCase, IndexOf(UpperCase, c))]

LowerChar(c) == IF c \in DOMAIN LowerOf THEN LowerOf[c] ELSE c

RECURSIVE ToLowerCase(_)
ToLowerCase(s) ==
    IF Len(s) = 0 THEN "" ELSE LowerChar(CharAt(s, 1)) \o ToLowerCase(Tail(s))

\* the input with ASCII tab and newline removed (URL parser, step 3)
RECURSIVE RemoveTabNewline(_)
RemoveTabNewline(s) ==
    IF Len(s) = 0 THEN ""
    ELSE IF CharAt(s, 1) \in {"\t", "\n"} THEN RemoveTabNewline(Tail(s))
         ELSE CharAt(s, 1) \o RemoveTabNewline(Tail(s))

\* index of the first character of s at or after i that is in set, else Len(s)+1
RECURSIVE FirstOf(_, _, _)
FirstOf(s, set, i) ==
    IF i > Len(s) THEN Len(s) + 1
    ELSE IF CharAt(s, i) \in set THEN i ELSE FirstOf(s, set, i + 1)

\* index of the last ":" of s, 0 when there is none
RECURSIVE LastColon(_, _)
LastColon(s, i) ==
    IF i = 0 THEN 0 ELSE IF CharAt(s, i) = ":" THEN i ELSE LastColon(s, i - 1)

AllDigits(s) == \A i \in 1..Len(s) : IndexOf(Digits, CharAt(s, i)) > 0

RECURSIVE ParseDigits(_, _)
ParseDigits(s, acc) ==
    IF Len(s) = 0 THEN acc
    ELSE ParseDigits(Tail(s), acc * 10 + IndexOf(Digits, CharAt(s, 1)) - 1)

ForbiddenHostCodePoints == {" ", "#", "/", ":", "<", ">", "?", "@", "[", "\\", "]", "^", "|", "%"}

DefaultPort(scheme) == IF scheme = "https" THEN 443 ELSE 80

InvalidURL == [ok |-> FALSE]

\* new URL(input): the parsed record, or InvalidURL where the constructor
\* throws TypeError
ParseURL(input) ==
    LET s == RemoveTabNewline(Trim(input))
        scheme == IF StartsWith(ToLowerCase(Slice(s, 1, 8)), "https://") THEN "https"
                  ELSE IF StartsWith(ToLowerCase(Slice(s, 1, 7)), "http://") THEN "http"
                  ELSE ""
        rest == Substring(s, Len(scheme) + 3)
        authEnd == FirstOf(rest, {"/", "\\", "?", "#"}, 1)
        authority == SubSeq(rest, 1, authEnd - 1)
        tail == SubSeq(rest, authEnd, Len(rest))
        colon == LastColon(authority, Len(authority))
        hostRaw == IF colon = 0 THEN authority ELSE SubSeq(authority, 1, colon - 1)
        portRaw == IF colon = 0 THEN "" ELSE Substring(authority, colon)
        pathEnd == FirstOf(tail, {"?", "#"}, 1)
        pathRaw == SubSeq(tail, 1, pathEnd - 1)
        hostOk == /\ Len(hostRaw) > 0
                  /\ \A i \in 1..Len(hostRaw) :
                         CharAt(hostRaw, i) \notin ForbiddenHostCodePoints
        portOk == AllDigits(portRaw) /\ ParseDigits(portRaw, 0) <= 65535
    IN  IF scheme = "" \/ ~hostOk \/ ~portOk THEN InvalidURL
        ELSE [ok |-> TRUE,
              scheme |-> scheme,
              host |-> ToLowerCase(hostRaw),
              port |-> IF Len(portRaw) = 0
                          \/ ParseDigits(portRaw, 0) = DefaultPort(scheme)
                       THEN ""
                       ELSE ToString(ParseDigits(portRaw, 0)),
              pathname |-> IF Len(pathRaw) = 0 THEN "/" ELSE pathRaw,
              rest |-> SubSeq(tail, pathEnd, Len(tail))]

\* url.origin
Origin(u) ==
    u.scheme \o "://" \o u.host \o (IF u.port = "" THEN "" ELSE ":" \o u.port)

\* url.href
Href(u) == Origin(u) \o u.pathname \o u.rest

WellKnownPath == "/.well-known/oauth-protected-resource"

\* getOAuthProtectedResourceMetadataUrl(serverUrl) of the MCP SDK:
\*   rsPath = pathname other than "/", else ""
\*   new URL("/.well-known/oauth-protected-resource" + rsPath, serverUrl).href
getOAuthProtectedResourceMetadataUrl(u) ==
    Origin(u) \o WellKnownPath \o (IF u.pathname = "/" THEN "" ELSE u.pathname)

---------------------------------------------------------------------------
(* Module-level configuration of auth0.ts *)

PORT == 3001

\* process.env.AUTH0_DOMAIN as string, process.env.AUTH0_AUDIENCE as string:
\* the casts check nothing, an unset variable reads undefined
Config(domain, audience) == [domain |-> domain, audience |-> audience]

Configured == Config(Str("tenant.auth0.com"), Str("https://mcp.example/api"))

\* new ApiClient({domain, audience}) at module load.  The constructor of the
\* library rejects a missing audience (MissingRequiredArgumentError) and
\* looks at the domain only when a token is verified.
NewApiClientThrows(options) == ~Truthy(options.audience)

\* The process starts: auth0.ts is loaded (apiClient is constructed), the
\* FastMCP server is constructed, start() registers the tools and awaits
\* server.start().  Neither file looks at AUTH0_DOMAIN or AUTH0_AUDIENCE
\* before the server listens; an exception of the module load ends the
\* process.
Start ==
    /\ server = "loading"
    /\ server' = IF NewApiClientThrows(config) THEN "exited" ELSE "listening"
    /\ UNCHANGED <<config, env, pc, request, baseUrl, accessToken, decoded,
                   caught, outcome, verifyCalls, console, toolCall>>

\* process.env.MCP_SERVER_URL ?? `http://localhost:${PORT}`
MCP_SERVER_URL == Nullish(env, Str("http://localhost:" \o ToString(PORT))).v

isNonEmptyString(value) == value.t = "string" /\ Len(value.v) > 0

\* request.headers[name]; Node lower-cases header names, so every other
\* spelling of a key reads undefined
Header(req, name) ==
    IF name \in DOMAIN req.headers THEN req.headers[name] ELSE Undefined

getBaseUrl(req) ==
    IF Truthy(env) THEN MCP_SERVER_URL
    ELSE LET host == Or(Header(req, "host"), Header(req, "x-forwarded-host"))
             proto == Header(req, "x-forwarded-proto")
             protocol == IF proto = Str("https") THEN "https"
                         ELSE IF proto = Str("http") THEN "http"
                         ELSE IF StartsWith(MCP_SERVER_URL, "https") THEN "https"
                         ELSE "http"
         IN  IF Truthy(host) THEN protocol \o "://" \o host.v ELSE MCP_SERVER_URL

---------------------------------------------------------------------------
(* authenticate (auth0.ts) *)

Error(class, kind, message) == [class |-> class, kind |-> kind, message |-> message]

NoError == [class |-> "none"]

Pending == [kind |-> "pending"]

Returned(session) == [kind |-> "session", session |-> session]

\* throw new Response(null, {status, statusText, headers})
Response(status, statusText, headers) ==
    [kind |-> "response", status |-> status, statusText |-> statusText,
     headers |-> headers]

\* an exception that is no Response and leaves authenticate uncaught
Escaped(name) == [kind |-> "exception", name |-> name]

\* lines 68-69: the Authorization header, first element when it is an array
AuthHeader(req) ==
    LET raw == Or(Header(req, "authorization"), Header(req, "Authorization"))
    IN  IF raw.t = "array"
        THEN (IF Len(raw.a) > 0 THEN raw.a[1] ELSE Undefined)
        ELSE raw

\* line 72
NoBearer(authHeader) ==
    \/ ~Truthy(authHeader)
    \/ authHeader.t # "string"
    \/ ~StartsWith(authHeader.v, "Bearer ")

\* line 85
ExtractToken(authHeader) == Trim(Substring(authHeader.v, 7))

\* ParseScopes without .filter(Boolean): empty tokens stay in the array
ParseScopesUnfiltered(scope) ==
    IF scope.t = "string" THEN Split(scope.v, " ") ELSE <<>>

\* lines 124-127
ParseScopes(scope) ==
    IF scope.t = "string" THEN FilterBoolean(Split(scope.v, " ")) ELSE <<>>

\* ClientId with the two claims read in the other order: azp before client_id
ClientIdAzpFirst(claims) ==
    IF isNonEmptyString(claims.azp) THEN claims.azp
    ELSE IF isNonEmptyString(claims.client_id) THEN claims.client_id
    ELSE Null

\* lines 108-113
ClientId(claims) ==
    IF isNonEmptyString(claims.client_id) THEN claims.client_id
    ELSE IF isNonEmptyString(claims.azp) THEN claims.azp
    ELSE Null

\* line 128
ExpiresAt(claims) == SpreadIf(claims.exp, "expiresAt" :> claims.exp)

\* lines 129-137
Extra(claims) ==
    ("sub" :> claims.sub)
    @@ SpreadIf(Bool(isNonEmptyString(claims.client_id)),
                "client_id" :> claims.client_id)
    @@ SpreadIf(Bool(isNonEmptyString(claims.azp)), "azp" :> claims.azp)
    @@ SpreadIf(Bool(isNonEmptyString(claims.name)), "name" :> claims.name)
    @@ SpreadIf(Bool(isNonEmptyString(claims.email)), "email" :> claims.email)

\* BuildSession without the check of lines 115-119: a payload without a
\* client identity yields a session whose clientId is null
BuildSessionUnchecked(token, claims) ==
    IF ~isNonEmptyString(claims.sub)
    THEN [ok |-> FALSE,
          error |-> Error("InvalidTokenError", "MissingSubject",
                          "Token is missing required subject (sub) claim")]
    ELSE [ok |-> TRUE,
          session |-> ("token" :> Str(token))
                      @@ ("clientId" :> ClientId(claims))
                      @@ ("scopes" :> Arr(ParseScopes(claims.scope)))
                      @@ ExpiresAt(claims)
                      @@ ("extra" :> Extra(claims))]

\* BuildSession with the client identity checked before the subject
BuildSessionClientFirst(token, claims) ==
    IF ~Truthy(ClientId(claims))
    THEN [ok |-> FALSE,
          error |-> Error("InvalidTokenError", "MissingClientIdentity",
              "Token is missing required client identification (client_id or azp claim).")]
    ELSE IF ~isNonEmptyString(claims.sub)
    THEN [ok |-> FALSE,
          error |-> Error("InvalidTokenError", "MissingSubject",
                          "Token is missing required subject (sub) claim")]
    ELSE [ok |-> TRUE,
          session |-> ("token" :> Str(token))
                      @@ ("clientId" :> ClientId(claims))
                      @@ ("scopes" :> Arr(ParseScopes(claims.scope)))
                      @@ ExpiresAt(claims)
                      @@ ("extra" :> Extra(claims))]

\* lines 102-140: what the try block does with the verifier's payload:
\* the session it returns or the error it throws
BuildSession(token, claims) ==
    IF ~isNonEmptyString(claims.sub)
    THEN [ok |-> FALSE,
          error |-> Error("InvalidTokenError", "MissingSubject",
                          "Token is missing required subject (sub) claim")]
    ELSE IF ~Truthy(ClientId(claims))
    THEN [ok |-> FALSE,
          error |-> Error("InvalidTokenError", "MissingClientIdentity",
              "Token is missing required client identification (client_id or azp claim).")]
    ELSE [ok |-> TRUE,
          session |-> ("token" :> Str(token))
                      @@ ("clientId" :> ClientId(claims))
                      @@ ("scopes" :> Arr(ParseScopes(claims.scope)))
                      @@ ExpiresAt(claims)
                      @@ ("extra" :> Extra(claims))]

\* lines 155-157
WwwAuthValue(message, resourceMetadataUrl) ==
    "Bearer error=\"invalid_token\", error_description=\"" \o message
    \o "\", resource_metadata=\"" \o resourceMetadataUrl \o "\""

AuthErrorClasses ==
    {"InvalidRequestError", "VerifyAccessTokenError", "InvalidTokenError"}

\* lines 141-182: the catch block; new URL(baseUrl) throws TypeError out of
\* the catch block when baseUrl does not parse
CatchBlock(error, base) ==
    IF error.class \in AuthErrorClasses
    THEN IF ~ParseURL(base).ok
         THEN [outcome |-> Escaped("TypeError"), console |-> <<"error">>]
         ELSE [outcome |->
                   Response(401, "Unauthorized",
                       {<<"WWW-Authenticate",
                          WwwAuthValue(error.message,
                              getOAuthProtectedResourceMetadataUrl(ParseURL(base)))>>}),
               console |-> <<"error", "log", "log", "log">>]
    ELSE IF error.class = "InsufficientScopeError"
    THEN [outcome |-> Response(403, "Forbidden", {}), console |-> <<"error">>]
    ELSE [outcome |-> Response(500, "Internal Server Error", {}),
          console |-> <<"error">>]

\* The call of authenticate up to its await: lines 59-100.  Without a Bearer
\* header it logs, throws InvalidRequestError and runs the catch block; with
\* one it extracts the token and invokes the verifier.  getToken (lines 89-97)
\* only re-reads the header: its InvalidRequestError is swallowed silently.
Authenticate(r, req) ==
    /\ server = "listening"
    /\ pc[r] = "idle"
    /\ request' = [request EXCEPT ![r] = req]
    /\ baseUrl' = [baseUrl EXCEPT ![r] = getBaseUrl(req)]
    /\ LET requestUrl == Or(req.url, Str("")).v
           isDiscoveryEndpoint == Includes(requestUrl, "/.well-known/")
           authHeader == AuthHeader(req)
           error == Error("InvalidRequestError", "NoCredential",
                          "No Bearer token found in request")
           handled == CatchBlock(error, getBaseUrl(req))
       IN  IF NoBearer(authHeader)
           THEN /\ caught' = [caught EXCEPT ![r] = error]
                /\ outcome' = [outcome EXCEPT ![r] = handled.outcome]
                /\ console' = [console EXCEPT ![r] =
                       <<IF isDiscoveryEndpoint THEN "warn" ELSE "log">>
                       \o handled.console]
                /\ pc' = [pc EXCEPT ![r] = "done"]
                /\ UNCHANGED <<accessToken, verifyCalls>>
           ELSE /\ accessToken' = [accessToken EXCEPT ![r] = ExtractToken(authHeader)]
                /\ verifyCalls' = Append(verifyCalls,
                       [request |-> r, accessToken |-> ExtractToken(authHeader)])
                /\ pc' = [pc EXCEPT ![r] = "verify"]
                /\ UNCHANGED <<caught, outcome, console>>
    /\ UNCHANGED <<config, server, env, decoded, toolCall>>

\* VerifyResolves with accessToken kept in one variable of the module instead
\* of a local of the call: the session gets the token extracted last
VerifyResolvesSharedToken(r, payload) ==
    /\ pc[r] = "verify"
    /\ decoded' = [decoded EXCEPT ![r] = payload]
    /\ LET built == BuildSession(verifyCalls[Len(verifyCalls)].accessToken, payload)
           handled == CatchBlock(built.error, baseUrl[r])
       IN  IF built.ok
           THEN /\ outcome' = [outcome EXCEPT ![r] = Returned(built.session)]
                /\ UNCHANGED <<caught, console>>
           ELSE /\ caught' = [caught EXCEPT ![r] = built.error]
                /\ outcome' = [outcome EXCEPT ![r] = handled.outcome]
                /\ console' = [console EXCEPT ![r] = handled.console]
    /\ pc' = [pc EXCEPT ![r] = "done"]
    /\ UNCHANGED <<config, server, env, request, baseUrl, accessToken,
                   verifyCalls, toolCall>>

\* apiClient.verifyAccessToken resolves with the verified payload: lines 98-140
VerifyResolves(r, payload) ==
    /\ pc[r] = "verify"
    /\ decoded' = [decoded EXCEPT ![r] = payload]
    /\ LET built == BuildSession(accessToken[r], payload)
           handled == CatchBlock(built.error, baseUrl[r])
       IN  IF built.ok
           THEN /\ outcome' = [outcome EXCEPT ![r] = Returned(built.session)]
                /\ UNCHANGED <<caught, console>>
           ELSE /\ caught' = [caught EXCEPT ![r] = built.error]
                /\ outcome' = [outcome EXCEPT ![r] = handled.outcome]
                /\ console' = [console EXCEPT ![r] = handled.console]
    /\ pc' = [pc EXCEPT ![r] = "done"]
    /\ UNCHANGED <<config, server, env, request, baseUrl, accessToken,
                   verifyCalls, toolCall>>

\* apiClient.verifyAccessToken rejects: lines 98-100, 141-182
VerifyRejects(r, error) ==
    /\ pc[r] = "verify"
    /\ caught' = [caught EXCEPT ![r] = error]
    /\ outcome' = [outcome EXCEPT ![r] = CatchBlock(error, baseUrl[r]).outcome]
    /\ console' = [console EXCEPT ![r] = CatchBlock(error, baseUrl[r]).console]
    /\ pc' = [pc EXCEPT ![r] = "done"]
    /\ UNCHANGED <<config, server, env, request, baseUrl, accessToken, decoded,
                   verifyCalls, toolCall>>

---------------------------------------------------------------------------
(* tools.ts: the scope gate and the registered tools *)

\* hasAllScopes with some in place of every: any one required scope suffices
hasSomeScope(requiredScopes, auth) ==
    \E i \in 1..Len(requiredScopes) :
        ArrayIncludes(auth["scopes"].a, requiredScopes[i])

\* hasAllScopes(requiredScopes)(auth), lines 9-16
hasAllScopes(requiredScopes, auth) ==
    \A i \in 1..Len(requiredScopes) :
        ArrayIncludes(auth["scopes"].a, requiredScopes[i])

Tool(name, gated, requiredScopes) ==
    [name |-> name, gated |-> gated, required |-> requiredScopes]

\* registerTools with greet gated by the scope of whoami
RegisteredToolsGreetAsWhoami ==
    {Tool("greet", TRUE, <<"tool:whoami">>),
     Tool("whoami", TRUE, <<"tool:whoami">>),
     Tool("get_datetime", FALSE, <<>>)}

\* registerTools: greet and whoami carry canAccess, get_datetime carries none
RegisteredTools ==
    {Tool("greet", TRUE, <<"tool:greet">>),
     Tool("whoami", TRUE, <<"tool:whoami">>),
     Tool("get_datetime", FALSE, <<>>)}

NoToolCall == [tool |-> "none"]

\* A tool of the session is dispatched: the framework consults the tool's
\* canAccess, when it has one, and runs execute only when it allows.  Nothing
\* in tools.ts or auth0.ts turns a denial into an HTTP response.
CallTool(r, tool) ==
    /\ pc[r] = "done"
    /\ outcome[r].kind = "session"
    /\ toolCall[r] = NoToolCall
    /\ LET allowed == IF tool.gated
                      THEN hasAllScopes(tool.required, outcome[r].session)
                      ELSE TRUE
       IN  toolCall' = [toolCall EXCEPT ![r] =
               [tool |-> tool.name, required |-> tool.required,
                gated |-> tool.gated, allowed |-> allowed, executed |-> allowed]]
    /\ UNCHANGED <<config, server, env, pc, request, baseUrl, accessToken,
                   decoded, caught, outcome, verifyCalls, console>>

---------------------------------------------------------------------------
(* Inputs *)

Opt(name, value) == IF value = Undefined THEN EmptyObj ELSE name :> value

Request(url, authorization, host, forwardedHost, forwardedProto) ==
    [url |-> url,
     headers |-> Opt("authorization", authorization) @@ Opt("host", host)
                 @@ Opt("x-forwarded-host", forwardedHost)
                 @@ Opt("x-forwarded-proto", forwardedProto)]

NoRequest == [url |-> Undefined, headers |-> EmptyObj]

Claims(sub, clientId, azp, scope, exp, name, email) ==
    [sub |-> sub, client_id |-> clientId, azp |-> azp, scope |-> scope,
     exp |-> exp, name |-> name, email |-> email]

EnvValues == {Undefined, Str("https://abc123.ngrok.io")}

AuthorizationValues ==
    {Undefined, Str("Basic dXNlcjpwdw=="), Str("bearer tok1"),
     Str("Bearer tok1"), Str("Bearer  tok2")}

HostValues == {Undefined, Str("localhost:3001"), Str("bad host")}

ForwardedHostValues == {Undefined, Str("abc123.ngrok.io")}

ForwardedProtoValues == {Undefined, Str("https"), Str("http")}

UrlValues == {Str("/mcp"), Str("/.well-known/oauth-protected-resource")}

Requests ==
    {Request(u, a, h, fh, fp) :
        u \in UrlValues, a \in AuthorizationValues, h \in HostValues,
        fh \in ForwardedHostValues, fp \in ForwardedProtoValues}

SubValues == {Undefined, Str(""), Num(42), Str("auth0|u1")}

ClientIdValues == {Undefined, Str(""), Str("client1")}

AzpValues == {Undefined, Str(""), Str("azp1")}

ScopeValues == {Undefined, Str("tool:whoami"), Str("tool:whoami tool:greet")}

ExpValues == {Undefined, Num(0), Num(1700000000)}

NameValues == {Undefined, Str("Ann")}

EmailValues == {Undefined, Str("")}

Payloads ==
    {Claims(s, c, a, sc, e, n, m) :
        s \in SubValues, c \in ClientIdValues, a \in AzpValues,
        sc \in ScopeValues, e \in ExpValues, n \in NameValues, m \in EmailValues}

\* what verifyAccessToken rejects with: every verification failure is a
\* VerifyAccessTokenError; anything else is an internal fault
VerifierErrors ==
    {Error("VerifyAccessTokenError", "MalformedToken", "Invalid Compact JWS"),
     Error("VerifyAccessTokenError", "KeyNotFound",
           "no applicable key found in the JSON Web Key Set"),
     Error("VerifyAccessTokenError", "KeyResolutionError",
           "Expected 200 OK from the JSON Web Key Set HTTP response"),
     Error("VerifyAccessTokenError", "SignatureInvalid",
           "signature verification failed"),
     Error("VerifyAccessTokenError", "ClaimInvalid",
           "\"exp\" claim timestamp check failed"),
     Error("TypeError", "InternalFault", "fetch failed")}

---------------------------------------------------------------------------
(* Spec: one request through the gate, over every request shape, every     *)
(* verifier outcome and the registered tools                                *)

RequestIds == {"r1"}

InitRequests(ids, envs) ==
    /\ env \in envs
    /\ pc = [r \in ids |-> "idle"]
    /\ request = [r \in ids |-> NoRequest]
    /\ baseUrl = [r \in ids |-> ""]
    /\ accessToken = [r \in ids |-> ""]
    /\ decoded = [r \in ids |-> Undefined]
    /\ caught = [r \in ids |-> NoError]
    /\ outcome = [r \in ids |-> Pending]
    /\ verifyCalls = <<>>
    /\ console = [r \in ids |-> <<>>]
    /\ toolCall = [r \in ids |-> NoToolCall]

\* a process whose AUTH0_DOMAIN and AUTH0_AUDIENCE are set and whose server
\* has started
InitWith(ids, envs) ==
    /\ config = Configured
    /\ server = "listening"
    /\ InitRequests(ids, envs)

CorePayloads ==
    {Claims(s, c, a, sc, Undefined, Undefined, Undefined) :
        s \in SubValues, c \in ClientIdValues, a \in AzpValues,
        sc \in {Undefined, Str("tool:whoami")}}

Init == InitWith(RequestIds, EnvValues)

Next ==
    \E r \in RequestIds :
        \/ \E req \in Requests : Authenticate(r, req)
        \/ \E payload \in CorePayloads : VerifyResolves(r, payload)
        \/ \E error \in VerifierErrors : VerifyRejects(r, error)
        \/ \E tool \in RegisteredTools : CallTool(r, tool)

Spec == Init /\ [][Next]_vars

---------------------------------------------------------------------------
(* SpecSession: the session builder over every payload, for a request      *)
(* that carries a Bearer credential                                         *)

BearerRequests ==
    {Request(Str("/mcp"), a, Str("localhost:3001"), Undefined, Undefined) :
        a \in {Str("Bearer tok1"), Str("Bearer  tok2")}}

InitSession == InitWith(RequestIds, EnvValues)

NextSession ==
    \E r \in RequestIds :
        \/ \E req \in BearerRequests : Authenticate(r, req)
        \/ \E payload \in Payloads : VerifyResolves(r, payload)

SpecSession == InitSession /\ [][NextSession]_vars

---------------------------------------------------------------------------
(* SpecScopes: scope strings built from up to MaxScopeParts pieces, and    *)
(* tools that require up to MaxRequired scopes                              *)

MaxScopeParts == 4

MaxRequired == 2

ScopePieces == {" ", "\t", "tool:greet", "tool:whoami"}

ScopeNames == {"tool:greet", "tool:whoami"}

RECURSIVE Concats(_)
Concats(n) ==
    IF n = 0 THEN {""}
    ELSE Concats(n - 1) \cup {s \o c : s \in Concats(n - 1), c \in ScopePieces}

ScopeStrings == Concats(MaxScopeParts)

ScopePayloads ==
    {Claims(Str("auth0|u1"), Str("client1"), Undefined, sc, Undefined,
            Undefined, Undefined) :
        sc \in {Undefined, Num(7)} \cup {Str(s) : s \in ScopeStrings}}

RequiredScopeSets == UNION {[1..k -> ScopeNames] : k \in 0..MaxRequired}

\* tools as addTool accepts them: canAccess: hasAllScopes(requiredScopes)
GatedTools == {Tool("gated", TRUE, required) : required \in RequiredScopeSets}

InitScopes == InitWith(RequestIds, {Undefined})

NextScopes ==
    \E r \in RequestIds :
        \/ Authenticate(r, Request(Str("/mcp"), Str("Bearer tok1"),
                                   Str("localhost:3001"), Undefined, Undefined))
        \/ \E payload \in ScopePayloads : VerifyResolves(r, payload)
        \/ \E tool \in GatedTools : CallTool(r, tool)

SpecScopes == InitScopes /\ [][NextScopes]_vars

---------------------------------------------------------------------------
(* SpecTools: the registered tools dispatched on sessions of every scope    *)
(* string, and on calls of authenticate that end without a session          *)

InitTools == InitWith(RequestIds, {Undefined})

NextTools ==
    \E r \in RequestIds :
        \/ \E req \in BearerRequests : Authenticate(r, req)
        \/ \E payload \in ScopePayloads : VerifyResolves(r, payload)
        \/ \E error \in VerifierErrors : VerifyRejects(r, error)
        \/ \E tool \in RegisteredTools : CallTool(r, tool)

SpecTools == InitTools /\ [][NextTools]_vars

---------------------------------------------------------------------------
(* SpecConcurrent: two calls of authenticate in flight at once.  Each call  *)
(* runs to its await in one step; the two verifications settle in either    *)
(* order and with any outcome.                                              *)

ConcurrentIds == {"r1", "r2"}

ConcurrentRequests ==
    {Request(Str("/mcp"), a, h, Undefined, Undefined) :
        a \in {Undefined, Str("Bearer tok1"), Str("Bearer  tok2")},
        h \in {Str("localhost:3001"), Str("abc123.ngrok.io")}}

ConcurrentPayloads ==
    {Claims(Str("auth0|u1"), Str("client1"), Undefined, Str("tool:greet"),
            Undefined, Undefined, Undefined),
     Claims(Str("auth0|u2"), Undefined, Str("azp1"), Str("tool:whoami"),
            Undefined, Undefined, Undefined),
     Claims(Undefined, Str("client1"), Undefined, Undefined,
            Undefined, Undefined, Undefined)}

ConcurrentErrors ==
    {Error("VerifyAccessTokenError", "SignatureInvalid",
           "signature verification failed"),
     Error("TypeError", "InternalFault", "fetch failed")}

InitConcurrent == InitWith(ConcurrentIds, {Undefined})

NextConcurrent ==
    \E r \in ConcurrentIds :
        \/ \E req \in ConcurrentRequests : Authenticate(r, req)
        \/ \E payload \in ConcurrentPayloads : VerifyResolves(r, payload)
        \/ \E error \in ConcurrentErrors : VerifyRejects(r, error)

SpecConcurrent == InitConcurrent /\ [][NextConcurrent]_vars

---------------------------------------------------------------------------
(* SpecHeaders: the header values the HTTP parser can deliver.  It strips   *)
(* the spaces and tabs around a header value, so "Bearer " followed by them *)
(* arrives as "Bearer"; a no-break space is kept.  MCP_SERVER_URL is unset, *)
(* set to the empty string, or set with and without a trailing slash.       *)

HeaderEnvValues ==
    {Undefined, Str(""), Str("https://abc123.ngrok.io"),
     Str("https://abc123.ngrok.io/")}

HeaderRequests ==
    {Request(Str("/mcp"), a, h, fh, fp) :
        a \in {Undefined, Str("Bearer"), Str("Bearer " \o NBSP), Str("Bearer tok1")},
        h \in {Undefined, Str("localhost:3001"), Str("Example.COM:80")},
        fh \in ForwardedHostValues,
        fp \in ForwardedProtoValues \cup {Str("ws")}}

HeaderPayloads ==
    {Claims(Str("auth0|u1"), Str("client1"), Undefined, Undefined, Undefined,
            Undefined, Undefined)}

InitHeaders == InitWith(RequestIds, HeaderEnvValues)

NextHeaders ==
    \E r \in RequestIds :
        \/ \E req \in HeaderRequests : Authenticate(r, req)
        \/ \E payload \in HeaderPayloads : VerifyResolves(r, payload)
        \/ \E error \in VerifierErrors : VerifyRejects(r, error)

SpecHeaders == InitHeaders /\ [][NextHeaders]_vars

---------------------------------------------------------------------------
(* SpecStartup: the process from its start, over every combination of a    *)
(* set, an empty and an unset AUTH0_DOMAIN and AUTH0_AUDIENCE.  A verifier  *)
(* without an issuer domain cannot accept a token: it only rejects.         *)

ConfigValues ==
    {Config(d, a) :
        d \in {Undefined, Str(""), Configured.domain},
        a \in {Undefined, Str(""), Configured.audience}}

StartupRequests ==
    {Request(u, a, Str("localhost:3001"), Undefined, Undefined) :
        u \in UrlValues, a \in {Undefined, Str("Bearer tok1")}}

InitStartup ==
    /\ config \in ConfigValues
    /\ server = "loading"
    /\ InitRequests(RequestIds, {Undefined})

NextStartup ==
    \/ Start
    \/ \E r \in RequestIds :
           \/ \E req \in StartupRequests : Authenticate(r, req)
           \/ \E payload \in CorePayloads :
                  Truthy(config.domain) /\ VerifyResolves(r, payload)
           \/ \E error \in VerifierErrors : VerifyRejects(r, error)

SpecStartup == InitStartup /\ [][NextStartup]_vars

---------------------------------------------------------------------------
(* Properties *)

Done(r) == pc[r] = "done"

\* the verifier accepted the credential of request r
Accepted(r) == decoded[r] # Undefined

IsSession(r) == outcome[r].kind = "session"

HasClientIdentity(claims) ==
    isNonEmptyString(claims.client_id) \/ isNonEmptyString(claims.azp)

Range(a) == {a[i] : i \in 1..Len(a)}

\* the maximal non-empty runs of s that hold no character of seps
TokenSet(s, seps) ==
    {SubSeq(s, i, FirstOf(s, seps, i) - 1) :
        i \in {k \in 1..Len(s) :
                 /\ CharAt(s, k) \notin seps
                 /\ (k = 1 \/ CharAt(s, k - 1) \in seps)}}

\* C1: authenticate returns a session if and only if the verifier accepted
\* the credential and the payload carries a non-empty string sub and a
\* non-empty string client_id or azp; the session it returns is complete
\* (token, non-empty clientId, scopes, extra.sub), and in every other case
\* the call ends with no session at all.
C1_SessionIffVerified ==
    \A r \in DOMAIN pc :
        Done(r) =>
            /\ IsSession(r) <=>
                   /\ Accepted(r)
                   /\ isNonEmptyString(decoded[r].sub)
                   /\ HasClientIdentity(decoded[r])
            /\ IsSession(r) =>
                   /\ {"token", "clientId", "scopes", "extra"}
                          \subseteq DOMAIN outcome[r].session
                   /\ outcome[r].session["token"] = Str(accessToken[r])
                   /\ isNonEmptyString(outcome[r].session["clientId"])
                   /\ outcome[r].session["scopes"].t = "array"
                   /\ outcome[r].session["extra"]["sub"] = decoded[r].sub
            /\ ~IsSession(r) =>
                   /\ outcome[r].kind \in {"response", "exception"}
                   /\ toolCall[r] = NoToolCall

\* a session built from a payload that has no client_id but an azp
C1_Witness ==
    \E r \in DOMAIN pc :
        /\ IsSession(r)
        /\ decoded[r].client_id = Undefined
        /\ outcome[r].session["clientId"] = Str("azp1")

\* C2: the scope gate allows a session iff every required scope is among
\* the session's scopes; an empty requirement allows every session and a
\* partial match is denied.
C2_GateIffSubset ==
    \A r \in DOMAIN pc :
        (toolCall[r] # NoToolCall /\ toolCall[r].gated) =>
            /\ toolCall[r].allowed <=>
                   Range(toolCall[r].required)
                       \subseteq Range(outcome[r].session["scopes"].a)
            /\ toolCall[r].required = <<>> => toolCall[r].allowed

\* a session holding one of two required scopes is denied
C2_Witness ==
    \E r \in DOMAIN pc :
        /\ toolCall[r] # NoToolCall
        /\ toolCall[r].required = <<"tool:whoami", "tool:greet">>
        /\ outcome[r].session["scopes"].a = <<"tool:whoami">>
        /\ ~toolCall[r].allowed

\* C3: a request without a Bearer Authorization header ends in a 401 whose
\* WWW-Authenticate header contains
\* resource_metadata="<base URL>/.well-known/oauth-protected-resource",
\* and the verifier is not invoked for it.
C3_NoCredential401 ==
    \A r \in DOMAIN pc :
        (Done(r) /\ NoBearer(AuthHeader(request[r]))) =>
            /\ outcome[r].kind = "response"
            /\ outcome[r].status = 401
            /\ \E h \in outcome[r].headers :
                   /\ h[1] = "WWW-Authenticate"
                   /\ Includes(h[2], "resource_metadata=\"" \o baseUrl[r]
                                     \o WellKnownPath \o "\"")
            /\ \A i \in 1..Len(verifyCalls) : verifyCalls[i].request # r

AuthFailureKinds ==
    {"NoCredential", "MalformedToken", "KeyNotFound", "KeyResolutionError",
     "SignatureInvalid", "ClaimInvalid", "MissingSubject",
     "MissingClientIdentity"}

\* C4: every authentication failure kind ends in a 401 that carries exactly
\* the header WWW-Authenticate: Bearer error="invalid_token",
\* error_description="<message>", resource_metadata="<discoveryUrl>".
C4_AuthFailure401 ==
    \A r \in DOMAIN pc :
        (Done(r) /\ caught[r] # NoError /\ caught[r].kind \in AuthFailureKinds) =>
            /\ outcome[r].kind = "response"
            /\ outcome[r].status = 401
            /\ \E discoveryUrl \in
                   {getOAuthProtectedResourceMetadataUrl(ParseURL(u)) :
                        u \in {v \in {baseUrl[r]} : ParseURL(v).ok}} :
                   outcome[r].headers =
                       {<<"WWW-Authenticate",
                          WwwAuthValue(caught[r].message, discoveryUrl)>>}

\* C5: a session the scope gate denies gets a 403 response without a
\* WWW-Authenticate header.
C5_ScopeDenied403 ==
    \A r \in DOMAIN pc :
        (toolCall[r] # NoToolCall /\ ~toolCall[r].allowed) =>
            /\ outcome[r].kind = "response"
            /\ outcome[r].status = 403
            /\ outcome[r].headers = {}

\* C6: a verified payload whose sub is absent, not a string or empty always
\* fails with MissingSubject, whatever the other claims are, also when the
\* client identity is missing as well.
C6_MissingSubjectFirst ==
    \A r \in DOMAIN pc :
        (Done(r) /\ Accepted(r) /\ ~isNonEmptyString(decoded[r].sub)) =>
            /\ ~IsSession(r)
            /\ caught[r].class = "InvalidTokenError"
            /\ caught[r].kind = "MissingSubject"

\* sub and the client identity are both missing
C6_Witness ==
    \E r \in DOMAIN pc :
        /\ Done(r)
        /\ Accepted(r)
        /\ decoded[r].sub = Str("")
        /\ ~HasClientIdentity(decoded[r])
        /\ decoded[r].exp = Num(0)
        /\ caught[r].kind = "MissingSubject"

\* the clientId the claim describes
ExpectedClientId(claims) ==
    IF isNonEmptyString(claims.client_id) THEN claims.client_id ELSE claims.azp

\* C7 as stated: clientId is client_id when that is a non-empty string, else
\* azp; with neither, session construction fails with MissingClientIdentity.
C7_ClientIdentityAsStated ==
    \A r \in DOMAIN pc :
        (Done(r) /\ Accepted(r)) =>
            /\ IsSession(r) =>
                   /\ outcome[r].session["clientId"] = ExpectedClientId(decoded[r])
                   /\ isNonEmptyString(outcome[r].session["clientId"])
            /\ ~HasClientIdentity(decoded[r]) =>
                   /\ ~IsSession(r)
                   /\ caught[r].kind = "MissingClientIdentity"

\* C7 amended: clientId is client_id when that is a non-empty string, else
\* azp, and never empty; with neither, session construction fails, with
\* MissingClientIdentity when sub is a non-empty string and with
\* MissingSubject when it is not.
C7_ClientIdentity ==
    \A r \in DOMAIN pc :
        (Done(r) /\ Accepted(r)) =>
            /\ IsSession(r) =>
                   /\ outcome[r].session["clientId"] = ExpectedClientId(decoded[r])
                   /\ isNonEmptyString(outcome[r].session["clientId"])
            /\ ~HasClientIdentity(decoded[r]) =>
                   /\ ~IsSession(r)
                   /\ caught[r].kind =
                          IF isNonEmptyString(decoded[r].sub)
                          THEN "MissingClientIdentity"
                          ELSE "MissingSubject"

\* an empty client_id falls back to azp
C7_Witness ==
    \E r \in DOMAIN pc :
        /\ IsSession(r)
        /\ decoded[r].client_id = Str("")
        /\ decoded[r].azp = Str("azp1")
        /\ outcome[r].session["clientId"] = Str("azp1")

\* the scope set the claim describes, for token separators seps
ScopesSplitBy(r, seps) ==
    /\ IsSession(r) =>
           Range(outcome[r].session["scopes"].a) =
               IF decoded[r].scope.t = "string"
               THEN TokenSet(decoded[r].scope.v, seps)
               ELSE {}
    /\ (/\ Done(r)
        /\ Accepted(r)
        /\ isNonEmptyString(decoded[r].sub)
        /\ HasClientIdentity(decoded[r])
        /\ decoded[r].scope = Undefined) =>
           /\ IsSession(r)
           /\ outcome[r].session["scopes"] = Arr(<<>>)

\* C8 as stated: the session's scope set is the set of non-empty
\* whitespace-separated tokens of the scope string; an absent scope claim
\* gives the empty set and is no error.
C8_ScopesAsStated == \A r \in DOMAIN pc : ScopesSplitBy(r, WhiteSpace)

\* C8 amended: the session's scope set is the set of non-empty tokens of the
\* scope string separated by the space character U+0020 alone, whatever the
\* number of spaces and the order; a tab or a newline does not separate and
\* stays part of a token; an absent scope claim gives the empty set and is
\* no error.
C8_ScopesSpaceSeparated == \A r \in DOMAIN pc : ScopesSplitBy(r, {" "})

\* two scopes separated by two spaces
C8_Witness ==
    \E r \in DOMAIN pc :
        /\ IsSession(r)
        /\ decoded[r].scope = Str("tool:whoami  tool:greet")
        /\ outcome[r].session["scopes"].a = <<"tool:whoami", "tool:greet">>

\* C9: the scopes of a returned session hold no entry twice.
C9_NoDuplicateScopes ==
    \A r \in DOMAIN pc :
        IsSession(r) =>
            LET scopes == outcome[r].session["scopes"].a
            IN  \A i, j \in 1..Len(scopes) : scopes[i] = scopes[j] => i = j

DefaultServerUrl == "http://localhost:3001"

\* the effective base URL the claim describes
StatedBaseUrl(req) ==
    LET host == Or(Header(req, "host"), Header(req, "x-forwarded-host"))
        proto == Header(req, "x-forwarded-proto")
        scheme == IF proto \in {Str("https"), Str("http")} THEN proto.v ELSE "http"
    IN  IF isNonEmptyString(env) THEN env.v
        ELSE IF isNonEmptyString(host) THEN scheme \o "://" \o host.v
        ELSE DefaultServerUrl

Is401(r) == outcome[r].kind = "response" /\ outcome[r].status = 401

\* the resource_metadata URL of the challenge of request r is url
DiscoveryUrlIs(r, url) ==
    \E h \in outcome[r].headers :
        /\ h[1] = "WWW-Authenticate"
        /\ Includes(h[2], "resource_metadata=\"" \o url \o "\"")

\* C11: the effective base URL is the configured server URL whenever one is
\* configured, whatever the headers; otherwise scheme://host with the host of
\* Host, else X-Forwarded-Host, and the scheme of X-Forwarded-Proto, else the
\* default scheme, and the default server URL when there is no host header;
\* the discovery URL of a 401 challenge is that base URL followed by the
\* protected-resource metadata path.
C11_BaseUrlAndDiscoveryUrl ==
    \A r \in DOMAIN pc :
        pc[r] # "idle" =>
            /\ baseUrl[r] = StatedBaseUrl(request[r])
            /\ Is401(r) => DiscoveryUrlIs(r, baseUrl[r] \o WellKnownPath)

\* the required-scope set the claim names for each tool
DeclaredScopes ==
    [greet |-> {"tool:greet"}, whoami |-> {"tool:whoami"}, get_datetime |-> {}]

\* C14: a tool body has executed only on a session that authenticate
\* returned and that holds every scope of the tool's declared set: greet
\* only with tool:greet, whoami only with tool:whoami; get_datetime, whose
\* set is empty, runs on every session whatever its scopes.
C14_ToolRunsOnlyWhenAllowed ==
    \A r \in DOMAIN pc :
        toolCall[r] # NoToolCall =>
            /\ Done(r)
            /\ IsSession(r)
            /\ toolCall[r].tool \in DOMAIN DeclaredScopes
            /\ toolCall[r].executed =>
                   DeclaredScopes[toolCall[r].tool]
                       \subseteq Range(outcome[r].session["scopes"].a)
            /\ toolCall[r].tool = "get_datetime" => toolCall[r].executed

\* greet has run on a session that holds tool:greet next to tool:whoami
C14_Witness ==
    \E r \in DOMAIN pc :
        /\ toolCall[r] # NoToolCall
        /\ toolCall[r].tool = "greet"
        /\ outcome[r].session["scopes"].a = <<"tool:whoami", "tool:greet">>
        /\ toolCall[r].executed

\* C12: when AUTH0_DOMAIN or AUTH0_AUDIENCE is missing the process never
\* listens and never authenticates a request: no call of authenticate
\* starts, so no request ends in an error caused by the missing value.
C12_ConfigValidatedAtStart ==
    (~Truthy(config.domain) \/ ~Truthy(config.audience)) =>
        /\ server # "listening"
        /\ \A r \in DOMAIN pc : pc[r] = "idle" /\ caught[r] = NoError

\* C15: a call of authenticate that fails with NoCredential on a request
\* outside the discovery paths writes nothing at console.error or
\* console.warn level, only informational messages.
C15_NoCredentialNotAnAnomaly ==
    \A r \in DOMAIN pc :
        (/\ Done(r)
         /\ caught[r] # NoError
         /\ caught[r].kind = "NoCredential"
         /\ ~Includes(Or(request[r].url, Str("")).v, "/.well-known/")) =>
            \A i \in 1..Len(console[r]) : console[r][i] \notin {"error", "warn"}

\* what a call of authenticate on req produces when it is the only call of
\* the process and the verifier resolves with payload, or rejects with
\* rejection when payload is undefined
SoloOutcome(req, payload, rejection) ==
    IF NoBearer(AuthHeader(req))
    THEN CatchBlock(Error("InvalidRequestError", "NoCredential",
                          "No Bearer token found in request"),
                    getBaseUrl(req)).outcome
    ELSE IF payload = Undefined
    THEN CatchBlock(rejection, getBaseUrl(req)).outcome
    ELSE LET built == BuildSession(ExtractToken(AuthHeader(req)), payload)
         IN  IF built.ok THEN Returned(built.session)
             ELSE CatchBlock(built.error, getBaseUrl(req)).outcome

\* C16: whatever other calls of authenticate run before, after or between
\* the steps of a call, a finished call has produced what it produces alone
\* for its request and its verifier outcome, a call that waits for the
\* verifier has produced nothing, and a returned session holds the token of
\* its own request and the clientId, scopes and sub of its own payload.
C16_CallsIndependent ==
    \A r \in DOMAIN pc :
        /\ pc[r] = "verify" => outcome[r] = Pending
        /\ Done(r) => outcome[r] = SoloOutcome(request[r], decoded[r], caught[r])
        /\ IsSession(r) =>
               /\ outcome[r].session["token"] =
                      Str(ExtractToken(AuthHeader(request[r])))
               /\ outcome[r].session["clientId"]
                      \in {decoded[r].client_id, decoded[r].azp}
               /\ Range(outcome[r].session["scopes"].a) \subseteq
                      (IF decoded[r].scope.t = "string"
                       THEN TokenSet(decoded[r].scope.v, {" "})
                       ELSE {})
               /\ outcome[r].session["extra"]["sub"] = decoded[r].sub

\* two sessions with different tokens, clients, scopes and subjects, the
\* call that reached the verifier second being the one with token tok1
C16_Witness ==
    \E r, q \in DOMAIN pc :
        /\ IsSession(r)
        /\ IsSession(q)
        /\ Len(verifyCalls) = 2
        /\ verifyCalls[1] = [request |-> q, accessToken |-> "tok2"]
        /\ verifyCalls[2] = [request |-> r, accessToken |-> "tok1"]
        /\ outcome[r].session["token"] = Str("tok1")
        /\ outcome[r].session["extra"]["sub"] = Str("auth0|u1")
        /\ outcome[r].session["scopes"].a = <<"tool:greet">>
        /\ outcome[q].session["token"] = Str("tok2")
        /\ outcome[q].session["clientId"] = Str("azp1")
        /\ outcome[q].session["extra"]["sub"] = Str("auth0|u2")

\* C17: every finished call of authenticate has returned a session or
\* thrown a Response of status 401, 403 or 500, never another exception,
\* whatever the headers of the request; an error outside the recognised
\* authentication failures gives 500 without a WWW-Authenticate header.
C17_SessionOrResponse ==
    \A r \in DOMAIN pc :
        Done(r) =>
            /\ \/ IsSession(r)
               \/ /\ outcome[r].kind = "response"
                  /\ outcome[r].status \in {401, 403, 500}
            /\ (/\ caught[r] # NoError
                /\ caught[r].class \notin
                       AuthErrorClasses \cup {"InsufficientScopeError"}) =>
                   /\ outcome[r].kind = "response"
                   /\ outcome[r].status = 500
                   /\ outcome[r].headers = {}

\* the Authorization header of req is the Bearer scheme followed by white
\* space only, or by nothing
BearerOnly(req) ==
    LET authHeader == AuthHeader(req)
    IN  /\ authHeader.t = "string"
        /\ StartsWith(authHeader.v, "Bearer")
        /\ Trim(Substring(authHeader.v, 6)) = ""

\* C18: the verifier is never called with an empty access token; a request
\* whose Authorization header is the Bearer scheme followed only by white
\* space fails with NoCredential and causes no call of the verifier.
C18_NoEmptyCredential ==
    /\ \A i \in 1..Len(verifyCalls) : verifyCalls[i].accessToken # ""
    /\ \A r \in DOMAIN pc :
           (pc[r] # "idle" /\ BearerOnly(request[r])) =>
               /\ Done(r)
               /\ caught[r].kind = "NoCredential"
               /\ \A i \in 1..Len(verifyCalls) : verifyCalls[i].request # r

====
